---- MODULE Spec2Model ----
(***************************************************************************)
(* Local interaction model (src/localint.py, class LocalInteraction).      *)
(*                                                                         *)
(* N players sit on a weighted directed graph (adj_matrix), share one      *)
(* payoff matrix and revise their actions by best response to the          *)
(* weighted tally of their neighbours' actions.  The action state is kept  *)
(* twice: current_actions (compact) is a view of the index array of the    *)
(* sparse one-hot matrix current_actions_mixed.                            *)
(*                                                                         *)
(* Agents, actions and time steps are numbered from 0 as in the source.    *)
(* simulate and simulate_iter are modelled with their frames: the          *)
(* generator created by simulate_iter runs lazily, one resumption per      *)
(* step, and simulate drives its own generator to exhaustion before any    *)
(* other operation can run (the program is single-threaded).               *)
(*                                                                         *)
(* Spec starts from a constructed engine (square matrices).  SpecConstruct *)
(* is the constructor alone, called with matrices of any shape.            *)
(***************************************************************************)
EXTENDS Integers, Sequences, FiniteSets, TLC

VARIABLES
    N,                      \* self.N
    num_actions,            \* self.num_actions
    adj_matrix,             \* self.adj_matrix (dense reading of the csr matrix)
    payoff_matrix,          \* the matrix A every Player(A) holds
    current_actions,        \* self.current_actions (view of the indices)
    current_actions_mixed,  \* self.current_actions_mixed (csr: data, indices, indptr)
    gen,                    \* frame of the generator made by simulate_iter
    sim,                    \* frame of the running / last simulate call
    iter,                   \* what the caller of simulate_iter holds and has seen
    last                    \* outcome of the last set_init_actions / play call

vars == <<N, num_actions, adj_matrix, payoff_matrix, current_actions,
          current_actions_mixed, gen, sim, iter, last>>

---------------------------------------------------------------------------
(* Bounds of the model *)

MaxN == 3
MaxLen == 3

---------------------------------------------------------------------------
(* Helpers *)

RECURSIVE SumRange(_, _, _)
\* f[lo] + ... + f[hi-1]
SumRange(f, lo, hi) ==
    IF hi <= lo THEN 0 ELSE f[hi - 1] + SumRange(f, lo, hi - 1)

\* None, the default of init_actions
None == <<"None">>

\* the three kinds of revision argument: the two modes and anything else
Revisions == {"simultaneous", "sequential", "other"}

---------------------------------------------------------------------------
(* Constructor inputs *)

\* n x n weights of a ring: player i is linked to itself with weight w[1],
\* to player i+1 with weight w[2] and to player i-1 with weight w[3]
RingMatrix(n, w) ==
    [i \in 0..(n - 1) |-> [j \in 0..(n - 1) |->
        (IF j = i THEN w[1] ELSE 0)
      + (IF j = (i + 1) % n THEN w[2] ELSE 0)
      + (IF j = (i + n - 1) % n THEN w[3] ELSE 0)]]

\* no link at all, a directed cycle i-1 -> i, the undirected ring, and a
\* weighted graph with self-loops
RingWeights == {<<0, 0, 0>>, <<0, 0, 1>>, <<0, 1, 1>>, <<1, 2, 0>>}

AdjMatrices ==
    UNION {{RingMatrix(n, w) : w \in RingWeights} : n \in 1..MaxN}

\* np.asarray of a list of rows: rows and columns are numbered from 0
AsArray(rows) ==
    [a \in 0..(Len(rows) - 1) |->
        [b \in 0..(Len(rows[a + 1]) - 1) |-> rows[a + 1][b + 1]]]

\* the games played: a trivial one-action game, coordination,
\* anti-coordination, and a game whose second action is dominant
PayoffMatrices ==
    { AsArray(<< <<1>> >>),
      AsArray(<< <<1, 0>>, <<0, 1>> >>),
      AsArray(<< <<0, 1>>, <<1, 0>> >>),
      AsArray(<< <<0, 0>>, <<1, 1>> >>) }

\* M, N = shape of a matrix given as rows
Rows(m) == Cardinality(DOMAIN m)

---------------------------------------------------------------------------
(* The action state and its two forms *)

Agents == 0..(N - 1)
Actions == 0..(num_actions - 1)
Profiles == [Agents -> Actions]

\* csr_matrix((np.ones(N), init_actions, np.arange(N+1)), shape=(N, num_actions))
MixedOf(n, init_actions) ==
    [data    |-> [k \in 0..(n - 1) |-> 1],
     indices |-> init_actions,
     indptr  |-> [r \in 0..n |-> r]]

\* the engine's action state as one value: the view and the matrix it views
Engine == [ca |-> current_actions, mixed |-> current_actions_mixed]

\* self.current_actions[:] = values : written through the view, so the
\* matrix's index array holds the same values
WriteAll(e, values) ==
    [ca |-> values, mixed |-> [e.mixed EXCEPT !.indices = values]]

\* WriteOne on a current_actions that is a copy of the indices, not a view
WriteOne_Copy(e, i, value) ==
    [ca |-> [e.ca EXCEPT ![i] = value], mixed |-> e.mixed]

\* self.current_actions[i] = value
WriteOne(e, i, value) ==
    [ca    |-> [e.ca EXCEPT ![i] = value],
     mixed |-> [e.mixed EXCEPT !.indices[i] = value]]

\* csr.toarray(): row r holds the data of the entries indptr[r]..indptr[r+1]-1
\* at their column indices (entries of one column add up)
ToArray(m, n, k) ==
    [r \in 0..(n - 1) |-> [c \in 0..(k - 1) |->
        SumRange([x \in 0..(n - 1) |->
                     IF m.indices[x] = c THEN m.data[x] ELSE 0],
                 m.indptr[r], m.indptr[r + 1])]]

\* Dot that counts every link once, whatever its weight
Dot_Unweighted(a, b, rows) ==
    [r \in 0..(rows - 1) |-> [c \in Actions |->
        SumRange([j \in Agents |->
                     (IF a[r][j] # 0 THEN 1 ELSE 0) * b[j][c]], 0, N)]]

\* a.dot(b) for a of shape (rows, N) and a dense b of shape (N, num_actions)
Dot(a, b, rows) ==
    [r \in 0..(rows - 1) |-> [c \in Actions |->
        SumRange([j \in Agents |-> a[r][j] * b[j][c]], 0, N)]]

\* OpponentActDists reading the adjacency matrix by columns (the players that
\* listen to i instead of those i listens to)
OpponentActDists_Transposed(e) ==
    Dot([i \in Agents |-> [j \in Agents |-> adj_matrix[j][i]]],
        ToArray(e.mixed, N, num_actions), N)

\* adj_matrix.dot(current_actions_mixed).toarray()
OpponentActDists(e) ==
    Dot(adj_matrix, ToArray(e.mixed, N, num_actions), N)

\* OpponentActDist reading column i of the adjacency matrix instead of row i
OpponentActDist_Column(e, i) ==
    Dot([r \in {0} |-> [j \in Agents |-> adj_matrix[j][i]]],
        ToArray(e.mixed, N, num_actions), 1)[0]

\* OpponentActDist that leaves player i itself out of its neighbours
OpponentActDist_NoSelf(e, i) ==
    Dot([r \in {0} |-> [adj_matrix[i] EXCEPT ![i] = 0]],
        ToArray(e.mixed, N, num_actions), 1)[0]

\* adj_matrix[i].dot(current_actions_mixed).toarray()[0] : adj_matrix[i] is
\* the 1 x N matrix holding row i
OpponentActDist(e, i) ==
    Dot([r \in {0} |-> adj_matrix[i]], ToArray(e.mixed, N, num_actions), 1)[0]

---------------------------------------------------------------------------
(* Player.best_response (module game_tools, outside src/) *)

PayoffVector(opponent_act_dist) ==
    [a \in Actions |->
        SumRange([b \in Actions |-> payoff_matrix[a][b] * opponent_act_dist[b]],
                 0, num_actions)]

\* one action of largest payoff against the distribution; ties go to the
\* smallest index, a fixed (deterministic) rule
BestResponse(opponent_act_dist) ==
    LET v == PayoffVector(opponent_act_dist)
        best == {a \in Actions : \A b \in Actions : v[a] >= v[b]}
    IN  CHOOSE a \in best : \A b \in best : a <= b

---------------------------------------------------------------------------
(* set_init_actions and play *)

\* np.empty(n): an array holding whatever the memory held
EmptyArrays(n) == {[k \in 0..(n - 1) |-> v] : v \in {0 - 1, 0}}

\* RandInt with the upper end included
RandInt_Inclusive == [Agents -> 0..num_actions]

\* np.random.randint(self.num_actions, size=self.N): the possible draws
RandInt == [Agents -> 0..(num_actions - 1)]

\* np.random.choice(range(self.N)): the possible draws
RandomChoice == Agents

\* SetInitActionsOp that writes nothing when init_actions is given
SetInitActionsOp_OnlyRandom(e, init_actions, random) ==
    IF init_actions = None THEN WriteAll(e, random) ELSE e

\* set_init_actions(init_actions): random is the draw of RandInt, used when
\* init_actions is None
SetInitActionsOp(e, init_actions, random) ==
    WriteAll(e, IF init_actions = None THEN random ELSE init_actions)

\* FillBestResponses with the index off by one: player i gets the best
\* response to the distribution of player i + 1
FillBestResponses_Shifted(best_responses, opponent_act_dists, order, done) ==
    [i \in DOMAIN best_responses |->
        BestResponse(opponent_act_dists[(i + 1) % N])]

RECURSIVE FillBestResponses(_, _, _, _)
\* for i, player in enumerate(self.players):
\*     best_responses[i] = player.best_response(opponent_act_dists[i, :])
\* order lists the players as the loop meets them, done counts those met
FillBestResponses(best_responses, opponent_act_dists, order, done) ==
    IF done = Len(order)
    THEN best_responses
    ELSE LET i == order[done + 1]
         IN  FillBestResponses(
                 [best_responses EXCEPT ![i] = BestResponse(opponent_act_dists[i])],
                 opponent_act_dists, order, done + 1)

\* enumerate(self.players): players 0, 1, ..., N-1
EnumeratePlayers == [k \in 1..N |-> k - 1]

RECURSIVE ReviseInPlace(_, _, _)
\* each player met writes its best response into the action state at once
ReviseInPlace(e, order, done) ==
    IF done = Len(order)
    THEN e
    ELSE LET i == order[done + 1]
         IN  ReviseInPlace(WriteOne(e, i, BestResponse(OpponentActDist(e, i))),
                           order, done + 1)

\* PlaySimultaneous without the best_responses buffer
PlaySimultaneous_InPlace(e, order, empty) == ReviseInPlace(e, order, 0)

\* the 'simultaneous' branch of play; empty is the fresh best_responses array
PlaySimultaneous(e, order, empty) ==
    LET opponent_act_dists == OpponentActDists(e)
        best_responses ==
            FillBestResponses(empty, opponent_act_dists, order, 0)
    IN  WriteAll(e, best_responses)

\* PlaySequential writing the best responses of all players
PlaySequential_All(e, i) ==
    LET opponent_act_dists == OpponentActDists(e)
    IN  WriteAll(e, [j \in Agents |-> BestResponse(opponent_act_dists[j])])

\* the 'sequential' branch of play; i is the draw of np.random.choice(range(N))
PlaySequential(e, i) ==
    LET opponent_act_dist == OpponentActDist(e, i)
    IN  WriteOne(e, i, BestResponse(opponent_act_dist))

\* PlayOp taking every mode but 'sequential' for 'simultaneous'
PlayOp_Fallback(e, revision, i, empty) ==
    IF revision = "sequential"
    THEN [e |-> PlaySequential(e, i), error |-> "none"]
    ELSE [e |-> PlaySimultaneous(e, EnumeratePlayers, empty),
          error |-> IF revision = "simultaneous" THEN "none" ELSE "ValueError"]

\* play(revision): the state after the call and the exception it raised
PlayOp(e, revision, i, empty) ==
    IF revision = "simultaneous"
    THEN [e |-> PlaySimultaneous(e, EnumeratePlayers, empty), error |-> "none"]
    ELSE IF revision = "sequential"
    THEN [e |-> PlaySequential(e, i), error |-> "none"]
    ELSE [e |-> e, error |-> "ValueError"]

---------------------------------------------------------------------------
(* The generator of simulate_iter *)

NoGen ==
    [status |-> "none", owner |-> "none", ts_length |-> 0,
     init_actions |-> None, revision |-> "simultaneous", t |-> 0]

\* NewGen as called by a simulate that does not pass init_actions on
NewGen_DropsInitActions(owner, ts_length, init_actions, revision) ==
    [status |-> "created", owner |-> owner, ts_length |-> ts_length,
     init_actions |-> IF owner = "simulate" THEN None ELSE init_actions,
     revision |-> revision, t |-> 0]

\* calling simulate_iter(...) only makes the generator: no line of its body
\* runs before the first next()
NewGen(owner, ts_length, init_actions, revision) ==
    [status |-> "created", owner |-> owner, ts_length |-> ts_length,
     init_actions |-> init_actions, revision |-> revision, t |-> 0]

\* `yield self.current_actions` hands out the array object itself, a view of
\* the engine's action state (an array of its own would have is_view FALSE
\* and hold its values in copy)
YieldCurrentActions == [is_view |-> TRUE, copy |-> None]

\* the values an array object shows when it is read in state e
Read(array, e) == IF array.is_view THEN e.ca ELSE array.copy

\* Resume with the loop body turned round: play first, then yield
Resume_PlayBeforeYield(e, g, random, i, empty) ==
    LET start == IF g.status = "created"
                 THEN SetInitActionsOp(e, g.init_actions, random) ELSE e
        t == IF g.status = "created" THEN 0 ELSE g.t + 1
        p == PlayOp(start, g.revision, i, empty)
    IN  IF g.status \in {"created", "suspended"} /\ t < g.ts_length
        THEN [e |-> p.e,
              gen |-> [g EXCEPT !.t = t,
                                !.status = IF p.error = "none"
                                           THEN "suspended" ELSE "done"],
              yields |-> p.error = "none", error |-> p.error,
              played |-> 1, seeded |-> IF g.status = "created" THEN 1 ELSE 0]
        ELSE [e |-> start, gen |-> [g EXCEPT !.status = "done"],
              yields |-> FALSE, error |-> "StopIteration",
              played |-> 0, seeded |-> IF g.status = "created" THEN 1 ELSE 0]

\* Resume without the revision that follows the last yield
Resume_NoLastPlay(e, g, random, i, empty) ==
    LET start == IF g.status = "created"
                 THEN SetInitActionsOp(e, g.init_actions, random) ELSE e
        t == IF g.status = "created" THEN 0 ELSE g.t + 1
        p == IF g.status = "created"
             THEN [e |-> start, error |-> "none"]
             ELSE PlayOp(start, g.revision, i, empty)
    IN  IF g.status \in {"created", "suspended"} /\ t < g.ts_length
        THEN [e |-> p.e,
              gen |-> [g EXCEPT !.t = t,
                                !.status = IF p.error = "none"
                                           THEN "suspended" ELSE "done"],
              yields |-> p.error = "none", error |-> p.error,
              played |-> IF g.status = "created" THEN 0 ELSE 1,
              seeded |-> IF g.status = "created" THEN 1 ELSE 0]
        ELSE [e |-> start, gen |-> [g EXCEPT !.status = "done"],
              yields |-> FALSE, error |-> "StopIteration",
              played |-> 0, seeded |-> IF g.status = "created" THEN 1 ELSE 0]

\* Resume with the loop one turn short: for t in range(ts_length - 1)
Resume_ShortLoop(e, g, random, i, empty) ==
    LET start == IF g.status = "created"
                 THEN SetInitActionsOp(e, g.init_actions, random) ELSE e
        t == IF g.status = "created" THEN 0 ELSE g.t + 1
        p == IF g.status = "suspended"
             THEN PlayOp(start, g.revision, i, empty)
             ELSE [e |-> start, error |-> "none"]
    IN  IF p.error # "none"
        THEN [e |-> p.e, gen |-> [g EXCEPT !.status = "done"],
              yields |-> FALSE, error |-> p.error, played |-> 1, seeded |-> 0]
        ELSE IF g.status \in {"created", "suspended"} /\ t < g.ts_length - 1
        THEN [e |-> p.e, gen |-> [g EXCEPT !.t = t, !.status = "suspended"],
              yields |-> TRUE, error |-> "none",
              played |-> IF g.status = "suspended" THEN 1 ELSE 0,
              seeded |-> IF g.status = "created" THEN 1 ELSE 0]
        ELSE [e |-> p.e, gen |-> [g EXCEPT !.status = "done"],
              yields |-> FALSE, error |-> "StopIteration",
              played |-> IF g.status = "suspended" THEN 1 ELSE 0,
              seeded |-> IF g.status = "created" THEN 1 ELSE 0]

\* Resume of a generator that starts over when it is resumed after its end
Resume_Restartable(e, g, random, i, empty) ==
    IF g.status \in {"created", "done"}
    THEN LET e1 == SetInitActionsOp(e, IF g.init_actions = None THEN e.ca
                                       ELSE g.init_actions, random)
         IN  [e |-> e1,
              gen |-> [g EXCEPT !.t = 0,
                                !.status = IF 0 < g.ts_length
                                           THEN "suspended" ELSE "done"],
              yields |-> 0 < g.ts_length,
              error |-> IF 0 < g.ts_length THEN "none" ELSE "StopIteration",
              played |-> 0, seeded |-> 1]
    ELSE LET p == PlayOp(e, g.revision, i, empty)
         IN  IF p.error # "none"
             THEN [e |-> p.e, gen |-> [g EXCEPT !.status = "done"],
                   yields |-> FALSE, error |-> p.error,
                   played |-> 1, seeded |-> 0]
             ELSE [e |-> p.e,
                   gen |-> [g EXCEPT !.t = g.t + 1,
                                     !.status = IF g.t + 1 < g.ts_length
                                                THEN "suspended" ELSE "done"],
                   yields |-> g.t + 1 < g.ts_length,
                   error |-> IF g.t + 1 < g.ts_length
                             THEN "none" ELSE "StopIteration",
                   played |-> 1, seeded |-> 0]

\* next(generator): runs the body from where it stands to the next yield, to
\* its end (StopIteration) or to an exception.
\*   created   : set_init_actions, then the loop test for t = 0
\*   suspended : play, then the loop test for t + 1
\*   done      : StopIteration, nothing runs
Resume(e, g, random, i, empty) ==
    IF g.status = "created"
    THEN LET e1 == SetInitActionsOp(e, g.init_actions, random)
         IN  [e |-> e1,
              gen |-> [g EXCEPT !.status = IF 0 < g.ts_length
                                           THEN "suspended" ELSE "done"],
              yields |-> 0 < g.ts_length,
              error |-> IF 0 < g.ts_length THEN "none" ELSE "StopIteration",
              played |-> 0, seeded |-> 1]
    ELSE IF g.status = "suspended"
    THEN LET p == PlayOp(e, g.revision, i, empty)
         IN  IF p.error # "none"
             THEN [e |-> p.e, gen |-> [g EXCEPT !.status = "done"],
                   yields |-> FALSE, error |-> p.error,
                   played |-> 1, seeded |-> 0]
             ELSE [e |-> p.e,
                   gen |-> [g EXCEPT !.t = g.t + 1,
                                     !.status = IF g.t + 1 < g.ts_length
                                                THEN "suspended" ELSE "done"],
                   yields |-> g.t + 1 < g.ts_length,
                   error |-> IF g.t + 1 < g.ts_length
                             THEN "none" ELSE "StopIteration",
                   played |-> 1, seeded |-> 0]
    ELSE [e |-> e, gen |-> g, yields |-> FALSE, error |-> "StopIteration",
          played |-> 0, seeded |-> 0]

\* the random draws a resumption of g consumes
RandomProfiles(g) ==
    IF g.status = "created" /\ g.init_actions = None
    THEN RandInt ELSE {[k \in Agents |-> 0]}

RandomPlayers(g) ==
    IF g.status = "suspended" /\ g.revision = "sequential"
    THEN RandomChoice ELSE {0}

EmptyBestResponses(g) ==
    IF g.status = "suspended" /\ g.revision = "simultaneous"
    THEN EmptyArrays(N) ELSE {[k \in Agents |-> 0]}

---------------------------------------------------------------------------
(* Frames and records *)

IdleSim ==
    [pc |-> "idle", ts_length |-> 0, init_actions |-> None,
     revision |-> "simultaneous", actions_sequence |-> <<>>, t |-> 0,
     plays |-> 0, seedings |-> 0, seeded |-> None]

NoIter == [collected |-> <<>>, observed |-> <<>>]

\* a finished (or, for simulate, started) call as the caller knows it: the
\* operation, its arguments, the player drawn, the exception raised and the
\* action state the call started from
Outcome(op, init_actions, revision, i, error, before) ==
    [op |-> op, init_actions |-> init_actions, revision |-> revision,
     i |-> i, error |-> error, before |-> before]

\* the caller holds nothing of an earlier call
NoOutcome == Outcome("none", None, "none", 0, "none", None)

\* no call is under way and the caller holds nothing of an earlier call
Idle == gen.status = "none" /\ sim.pc = "idle" /\ last = NoOutcome

\* the init_actions a caller passes: N actions in range, or None
InitActionsArgs == Profiles \cup {None}

\* actions_sequence[t] = actions : the values of the array are copied in
StoreRow(actions_sequence, t, actions, e) ==
    [actions_sequence EXCEPT ![t] = Read(actions, e)]

\* the profile simulate(ts_length, init_actions, revision) records first when
\* it is called in action state e with ts_length >= 1 and given init_actions
\* (no random draw is used): lines 83-91 up to the first actions_sequence[0]
FirstRecorded(e, init_actions, revision) ==
    LET unused == [k \in Agents |-> 0]
        e1 == SetInitActionsOp(e, init_actions, unused)
        r == Resume(e1, NewGen("simulate", 1, init_actions, revision),
                    unused, 0, unused)
    IN  StoreRow([t \in {0} |-> unused], 0, YieldCurrentActions, r.e)[0]

---------------------------------------------------------------------------
(* Construction *)

\* __init__(payoff_matrix, adj_matrix) on square matrices
Init ==
    \E adj \in AdjMatrices, A \in PayoffMatrices :
        /\ adj_matrix = adj
        /\ N = Rows(adj)
        /\ payoff_matrix = A
        /\ num_actions = Rows(A)
        /\ current_actions_mixed = MixedOf(Rows(adj), [k \in 0..(Rows(adj) - 1) |-> 0])
        /\ current_actions = current_actions_mixed.indices
        /\ gen = NoGen
        /\ sim = IdleSim
        /\ iter = NoIter
        /\ last = NoOutcome

Fixed == UNCHANGED <<N, num_actions, adj_matrix, payoff_matrix>>

\* an argument of the constructor as an array: its shape (one entry per
\* dimension) and its entries laid out in rows
Array(shape, rows) == [shape |-> shape, rows |-> rows]

\* r rows of c entries v
Grid(r, c, v) == [i \in 0..(r - 1) |-> [j \in 0..(c - 1) |-> v]]

\* adj_matrix arguments: the square matrices of Init and matrices of every
\* other shape up to MaxN x MaxN
AdjArgs ==
    {Array(<<Rows(m), Rows(m)>>, m) : m \in AdjMatrices}
    \cup {Array(<<x[1], x[2]>>, Grid(x[1], x[2], x[3])) :
             x \in {y \in (1..MaxN) \X (1..MaxN) \X {0, 1} : y[1] # y[2]}}

\* payoff_matrix arguments: the square matrices of Init, two-dimensional
\* arrays that are not square, and arrays of no, one and three dimensions
PayoffArgs ==
    {Array(<<Rows(A), Rows(A)>>, A) : A \in PayoffMatrices}
    \cup {Array(<<1, 2>>, Grid(1, 2, 1)), Array(<<2, 1>>, Grid(2, 1, 1)),
           Array(<<2, 3>>, Grid(2, 3, 1)),
           Array(<< >>, Grid(1, 1, 1)),
           Array(<<1>>, Grid(1, 1, 1)), Array(<<2>>, Grid(1, 2, 1)),
           Array(<<2, 2, 2>>, Grid(2, 2, 1))}

\* no engine: what the caller has while __init__ has not returned one
NoEngine ==
    [error |-> "ValueError", N |-> None, num_actions |-> None,
     adj_matrix |-> None, payoff_matrix |-> None, mixed |-> None]

\* ConstructOp that takes any two-dimensional payoff matrix, square or not
ConstructOp_AnyRectangle(payoff_matrix_arg, adj_matrix_arg) ==
    IF adj_matrix_arg.shape[1] # adj_matrix_arg.shape[2]
    THEN NoEngine
    ELSE IF Len(payoff_matrix_arg.shape) # 2
    THEN NoEngine
    ELSE [error |-> "none",
          N |-> adj_matrix_arg.shape[2],
          num_actions |-> payoff_matrix_arg.shape[1],
          adj_matrix |-> adj_matrix_arg.rows,
          payoff_matrix |-> payoff_matrix_arg.rows,
          mixed |-> MixedOf(adj_matrix_arg.shape[2],
                            [k \in 0..(adj_matrix_arg.shape[2] - 1) |-> 0])]

\* __init__(payoff_matrix, adj_matrix): the two checks, then the fields of
\* the new engine; a raise leaves the caller without an engine
ConstructOp(payoff_matrix_arg, adj_matrix_arg) ==
    IF adj_matrix_arg.shape[1] # adj_matrix_arg.shape[2]
    THEN NoEngine
    ELSE IF \/ Len(payoff_matrix_arg.shape) # 2
            \/ payoff_matrix_arg.shape[1] # payoff_matrix_arg.shape[2]
    THEN NoEngine
    ELSE [error |-> "none",
          N |-> adj_matrix_arg.shape[2],
          num_actions |-> payoff_matrix_arg.shape[1],
          adj_matrix |-> adj_matrix_arg.rows,
          payoff_matrix |-> payoff_matrix_arg.rows,
          mixed |-> MixedOf(adj_matrix_arg.shape[2],
                            [k \in 0..(adj_matrix_arg.shape[2] - 1) |-> 0])]

\* LocalInteraction(payoff_matrix, adj_matrix) has been called with matrices
\* of any shape and has not returned yet: there is no engine
InitCall ==
    \E adj \in AdjArgs, A \in PayoffArgs :
        /\ N = None
        /\ num_actions = None
        /\ adj_matrix = None
        /\ payoff_matrix = None
        /\ current_actions = None
        /\ current_actions_mixed = None
        /\ gen = NoGen
        /\ sim = IdleSim
        /\ iter = NoIter
        /\ last = Outcome("__init__", None, "none", 0, "pending",
                          [payoff_matrix |-> A, adj_matrix |-> adj])

\* __init__ runs: it raises ValueError or returns the engine
Construct ==
    /\ last.op = "__init__"
    /\ last.error = "pending"
    /\ \E c \in {ConstructOp(last.before.payoff_matrix,
                              last.before.adj_matrix)} :
          /\ N' = c.N
          /\ num_actions' = c.num_actions
          /\ adj_matrix' = c.adj_matrix
          /\ payoff_matrix' = c.payoff_matrix
          /\ current_actions_mixed' = c.mixed
          /\ current_actions' = IF c.error = "none" THEN c.mixed.indices
                                ELSE None
          /\ last' = [last EXCEPT !.error = c.error]
    /\ UNCHANGED <<gen, sim, iter>>

\* construction alone, from arguments of any shape
SpecConstruct == InitCall /\ [][Construct]_vars

SetEngine(e) ==
    /\ current_actions' = e.ca
    /\ current_actions_mixed' = e.mixed

---------------------------------------------------------------------------
(* Operations *)

\* set_init_actions(init_actions)
SetInitActions ==
    /\ Idle
    /\ \E init_actions \in InitActionsArgs :
       \E random \in (IF init_actions = None THEN RandInt
                      ELSE {[k \in Agents |-> 0]}) :
       \E e1 \in {SetInitActionsOp(Engine, init_actions, random)} :
              /\ SetEngine(e1)
              /\ last' = Outcome("set_init_actions", init_actions, "none", 0,
                                 "none", None)
    /\ UNCHANGED <<gen, sim, iter>>
    /\ Fixed

\* play(revision)
Play ==
    /\ Idle
    /\ \E revision \in Revisions :
       \E i \in (IF revision = "sequential" THEN RandomChoice ELSE {0}) :
       \E empty \in (IF revision = "simultaneous" THEN EmptyArrays(N)
                     ELSE {[k \in Agents |-> 0]}) :
       \E p \in {PlayOp(Engine, revision, i, empty)} :
              /\ SetEngine(p.e)
              /\ last' = Outcome("play", None, revision, i, p.error, Engine)
    /\ UNCHANGED <<gen, sim, iter>>
    /\ Fixed

\* simulate(ts_length, init_actions, revision), lines 83-88: seed, allocate
\* the result, make the generator
Simulate ==
    /\ Idle
    /\ \E ts_length \in 0..MaxLen, init_actions \in InitActionsArgs,
          revision \in Revisions :
       \E random \in (IF init_actions = None THEN RandInt
                      ELSE {[k \in Agents |-> 0]}) :
       \E empty \in EmptyArrays(N) :
       \E e1 \in {SetInitActionsOp(Engine, init_actions, random)} :
              /\ SetEngine(e1)
              /\ sim' = [pc |-> "loop", ts_length |-> ts_length,
                         init_actions |-> init_actions, revision |-> revision,
                         actions_sequence |->
                             [t \in 0..(ts_length - 1) |-> empty],
                         t |-> 0, plays |-> 0, seedings |-> 1,
                         seeded |-> e1.ca]
              /\ gen' = NewGen("simulate", ts_length, init_actions, revision)
              /\ last' = Outcome("simulate", init_actions, revision, 0, "none",
                                 None)
    /\ UNCHANGED iter
    /\ Fixed

\* simulate, lines 90-93: one turn of `for t, actions in enumerate(...)`,
\* or the return when the generator is exhausted
SimulateLoop ==
    /\ sim.pc = "loop"
    /\ \E random \in RandomProfiles(gen), i \in RandomPlayers(gen),
          empty \in EmptyBestResponses(gen) :
       \E r \in {Resume(Engine, gen, random, i, empty)} :
          LET counted == [sim EXCEPT !.plays = sim.plays + r.played,
                                     !.seedings = sim.seedings + r.seeded,
                                     !.seeded = IF r.seeded = 1 THEN r.e.ca
                                                ELSE sim.seeded]
          IN  /\ SetEngine(r.e)
              /\ IF r.yields
                 THEN /\ sim' = [counted EXCEPT
                                   !.actions_sequence =
                                       StoreRow(sim.actions_sequence, sim.t,
                                                YieldCurrentActions, r.e),
                                   !.t = sim.t + 1]
                      /\ gen' = r.gen
                      /\ UNCHANGED last
                 ELSE /\ sim' = [counted EXCEPT
                                   !.pc = IF r.error = "StopIteration"
                                          THEN "returned" ELSE "raised"]
                      /\ gen' = NoGen
                      /\ last' = [last EXCEPT
                                   !.error = IF r.error = "StopIteration"
                                             THEN "none" ELSE r.error]
    /\ UNCHANGED iter
    /\ Fixed

\* the arguments of a simulate_iter call: any, or, for a caller that holds
\* the trajectory of a simultaneous run from given actions, those of that run
\* once more (to go through the same run lazily)
IterArgs ==
    IF Idle
    THEN [ts_length : 0..MaxLen, init_actions : InitActionsArgs,
          revision : Revisions]
    ELSE IF /\ gen.status = "none" /\ sim.pc = "returned"
            /\ sim.revision = "simultaneous" /\ sim.init_actions # None
    THEN {[ts_length |-> sim.ts_length, init_actions |-> sim.init_actions,
           revision |-> sim.revision]}
    ELSE {}

\* simulate_iter(ts_length, init_actions, revision): the call itself
SimulateIter ==
    /\ \E args \in IterArgs :
       \E ts_length \in {args.ts_length}, init_actions \in {args.init_actions},
          revision \in {args.revision} :
          /\ gen' = NewGen("caller", ts_length, init_actions, revision)
          /\ last' = Outcome("simulate_iter", init_actions, revision, 0,
                             "none", None)
    /\ UNCHANGED <<current_actions, current_actions_mixed, sim, iter>>
    /\ Fixed

\* next() on the generator the caller holds; the caller keeps each array it
\* is handed and notes the values it shows at that moment.  The outcome
\* keeps the status the generator had and, of a call on an exhausted
\* generator, the action state the call started from
Next_ ==
    /\ gen.owner = "caller"
    /\ \E random \in RandomProfiles(gen), i \in RandomPlayers(gen),
          empty \in EmptyBestResponses(gen) :
       \E r \in {Resume(Engine, gen, random, i, empty)} :
              /\ SetEngine(r.e)
              /\ gen' = r.gen
              /\ iter' = IF r.yields
                         THEN [collected |->
                                   Append(iter.collected, YieldCurrentActions),
                               observed |->
                                   Append(iter.observed,
                                          Read(YieldCurrentActions, r.e))]
                         ELSE iter
              /\ last' = Outcome("next", gen.init_actions, gen.revision, 0,
                                 r.error,
                                 [status |-> gen.status,
                                  e |-> IF gen.status = "done" THEN Engine
                                        ELSE None])
    /\ UNCHANGED sim
    /\ Fixed

\* the caller lets go of what the last call gave it (the generator and the
\* arrays it handed out, the trajectory simulate returned, the exception);
\* the engine stays as it is
Discard ==
    /\ ~Idle
    /\ sim.pc # "loop"
    /\ gen' = NoGen
    /\ iter' = NoIter
    /\ sim' = IdleSim
    /\ last' = NoOutcome
    /\ UNCHANGED <<current_actions, current_actions_mixed>>
    /\ Fixed

Next ==
    \/ SetInitActions
    \/ Play
    \/ Simulate
    \/ SimulateLoop
    \/ SimulateIter
    \/ Next_
    \/ Discard

Spec == Init /\ [][Next]_vars

---------------------------------------------------------------------------
(* What the properties are stated with *)

ValidRevisions == {"simultaneous", "sequential"}

\* for player i and every action a, the sum over players j of
\* adj_matrix[i][j] * [profile[j] = a]
WeightedTally(profile, i) ==
    [a \in Actions |->
        SumRange([j \in Agents |->
                     adj_matrix[i][j] * (IF profile[j] = a THEN 1 ELSE 0)],
                 0, N)]

\* every player's best response to the tally of its neighbours in profile
BestResponseImage(profile) ==
    [i \in Agents |-> BestResponse(WeightedTally(profile, i))]

\* q is profile p after one revision step of the given mode
OneRevision(revision, p, q) ==
    IF revision = "simultaneous"
    THEN q = BestResponseImage(p)
    ELSE \E i \in Agents :
            q = [p EXCEPT ![i] = BestResponse(WeightedTally(p, i))]

\* the players of a simultaneous step in every order they could be met
PlayerOrders ==
    {[k \in 1..N |-> f[k - 1]] : f \in Permutations(Agents)}

\* simulate has just returned: no call has been made since
SimulateReturned == sim.pc = "returned" /\ last.op = "simulate"

\* a profile written as a list, players numbered from 0
ProfileOf(list) == [k \in 0..(Len(list) - 1) |-> list[k + 1]]

\* the three-player example: player 0 listens to player 2 only, player 1 to
\* player 0 only, player 2 to player 1 only (weights 0/1), and the payoff
\* matrix of pure coordination, whose best response is the action the
\* heavier part of the neighbours plays
ExampleCycle == RingMatrix(3, <<0, 0, 1>>)
Coordination == AsArray(<< <<1, 0>>, <<0, 1>> >>)

---------------------------------------------------------------------------
(* Properties *)

\* C1: in a simulate call with given init_actions (N actions in range) and a
\* valid revision mode, the profiles are recorded before each revision:
\* recorded profile 0 is init_actions, and each recorded profile t+1 is
\* recorded profile t after exactly one revision step of the mode (in
\* simultaneous mode, its best-response image).
C1_RecordedBeforeRevision ==
    ( /\ sim.pc \in {"loop", "returned"}
      /\ sim.init_actions # None
      /\ sim.revision \in ValidRevisions )
    => /\ (sim.t >= 1 => sim.actions_sequence[0] = sim.init_actions)
       /\ \A t \in 0..(sim.t - 2) :
             OneRevision(sim.revision, sim.actions_sequence[t],
                         sim.actions_sequence[t + 1])
       /\ (sim.pc = "returned" => sim.t = sim.ts_length)

\* C1 witness: a returned trajectory of at least two profiles from given
\* init_actions whose second profile differs from the first
C1_Witness ==
    /\ sim.pc = "returned"
    /\ sim.init_actions # None
    /\ sim.revision = "simultaneous"
    /\ sim.ts_length >= 2
    /\ sim.actions_sequence[0] = sim.init_actions
    /\ sim.actions_sequence[1] # sim.actions_sequence[0]

\* C2: when simulate returns, play has run exactly ts_length times; the action
\* state is the seeded profile after ts_length revisions: one revision beyond
\* the last recorded profile when ts_length >= 1, the seeded profile itself
\* when ts_length = 0.
C2_PlaysExactlyLength ==
    SimulateReturned
    => /\ sim.plays = sim.ts_length
       /\ (sim.init_actions # None => sim.seeded = sim.init_actions)
       /\ (sim.ts_length = 0 => current_actions = sim.seeded)
       /\ (sim.ts_length >= 1 =>
             /\ sim.actions_sequence[0] = sim.seeded
             /\ \A t \in 0..(sim.ts_length - 2) :
                   OneRevision(sim.revision, sim.actions_sequence[t],
                               sim.actions_sequence[t + 1])
             /\ OneRevision(sim.revision,
                            sim.actions_sequence[sim.ts_length - 1],
                            current_actions))

\* C2 witness: simulate has returned after at least two revisions, the last
\* of which changed the action state
C2_Witness ==
    /\ SimulateReturned
    /\ sim.ts_length >= 2
    /\ sim.plays = sim.ts_length
    /\ current_actions # sim.actions_sequence[sim.ts_length - 1]

\* C3: for every ts_length >= 0, every valid revision mode and every seeding
\* (given actions in range, or random), simulate returns exactly ts_length
\* profiles, each of N entries, every entry an action in 0..num_actions-1.
C3_TrajectoryShape ==
    (sim.pc = "returned" /\ sim.revision \in ValidRevisions)
    => /\ DOMAIN sim.actions_sequence = 0..(sim.ts_length - 1)
       /\ \A t \in 0..(sim.ts_length - 1) :
             /\ DOMAIN sim.actions_sequence[t] = Agents
             /\ \A k \in Agents : sim.actions_sequence[t][k] \in Actions

\* C3 witness: a returned trajectory of the longest length from a random seed
\* whose profiles are not all alike
C3_Witness ==
    /\ sim.pc = "returned"
    /\ sim.init_actions = None
    /\ sim.revision = "sequential"
    /\ sim.ts_length >= 2
    /\ \E t \in 1..(sim.ts_length - 1) :
          sim.actions_sequence[t] # sim.actions_sequence[0]

\* C4: in a simultaneous play step every player's new action is its best
\* response to the opponent distribution of the profile as it was before the
\* step, and the resulting profile is the same whatever the order in which the
\* players are processed.
C4_SimultaneousFromSnapshot ==
    (last.op = "play" /\ last.revision = "simultaneous")
    => /\ current_actions = BestResponseImage(last.before.ca)
       /\ \A order \in PlayerOrders, empty \in EmptyArrays(N) :
             PlaySimultaneous(last.before, order, empty).ca = current_actions

\* C4 witness: a simultaneous step in which at least two players changed
\* their action
C4_Witness ==
    /\ last.op = "play"
    /\ last.revision = "simultaneous"
    /\ Cardinality({i \in Agents : current_actions[i] # last.before.ca[i]}) >= 2
    /\ current_actions = BestResponseImage(last.before.ca)

\* C5: after one sequential play step every player other than the selected
\* player i has the action it had before the step.
C5_SequentialLocality ==
    (last.op = "play" /\ last.revision = "sequential")
    => /\ last.i \in Agents
       /\ \A j \in Agents \ {last.i} :
             current_actions[j] = last.before.ca[j]

\* C5 witness: a sequential step that selected the last of at least two
\* players and changed its action
C5_Witness ==
    /\ last.op = "play"
    /\ last.revision = "sequential"
    /\ N >= 2
    /\ last.i = N - 1
    /\ current_actions[last.i] # last.before.ca[last.i]
    /\ \A j \in Agents \ {last.i} : current_actions[j] = last.before.ca[j]

\* C6: play with a revision mode other than 'simultaneous' and 'sequential'
\* raises ValueError and leaves the action state, compact and mixed, as it
\* was before the call.
C6_InvalidRevisionRaises ==
    (last.op = "play" /\ last.revision \notin ValidRevisions)
    => /\ last.error = "ValueError"
       /\ current_actions = last.before.ca
       /\ current_actions_mixed = last.before.mixed

\* C6 witness: a failed play from a profile that a valid step would have
\* changed
C6_Witness ==
    /\ last.op = "play"
    /\ last.revision \notin ValidRevisions
    /\ last.error = "ValueError"
    /\ BestResponseImage(last.before.ca) # last.before.ca
    /\ current_actions = last.before.ca

\* C7: in every reachable state each row of the mixed form has exactly one
\* nonzero entry, of value 1, in the column given by the compact form.
C7_MixedMatchesCompact ==
    LET dense == ToArray(current_actions_mixed, N, num_actions)
    IN  \A i \in Agents :
           /\ Cardinality({a \in Actions : dense[i][a] # 0}) = 1
           /\ \E a \in Actions : a = current_actions[i] /\ dense[i][a] = 1

\* C7 witness: after a sequential step that changed one player's action, the
\* mixed form has that player's 1 in the new column
C7_Witness ==
    /\ last.op = "play"
    /\ last.revision = "sequential"
    /\ current_actions[last.i] # last.before.ca[last.i]
    /\ ToArray(current_actions_mixed, N, num_actions)[last.i]
                                               [current_actions[last.i]] = 1

\* C8: every entry of the compact form is an action in 0..num_actions-1 in
\* every reachable state.
C8_ActionsInRange ==
    /\ DOMAIN current_actions = Agents
    /\ \A i \in Agents : current_actions[i] \in Actions

\* C8 witness: a random seeding that drew the largest action for the last
\* player
C8_Witness ==
    /\ last.op = "set_init_actions"
    /\ last.init_actions = None
    /\ num_actions >= 2
    /\ current_actions[N - 1] = num_actions - 1

\* the caller iterates the run whose trajectory it holds
SameRunAgain ==
    /\ gen.owner = "caller"
    /\ sim.pc = "returned"
    /\ gen.ts_length = sim.ts_length
    /\ gen.init_actions = sim.init_actions
    /\ gen.revision = sim.revision
    /\ sim.init_actions # None
    /\ sim.revision = "simultaneous"

\* C9: for the same given init_actions, the same length and simultaneous
\* revision, the profiles read from simulate_iter, each at the yield that
\* produces it, are one by one the profiles simulate returned.
C9_IterMatchesSimulate ==
    SameRunAgain
    => /\ Len(iter.observed) <= sim.ts_length
       /\ \A k \in 1..Len(iter.observed) :
             iter.observed[k] = sim.actions_sequence[k - 1]
       /\ (gen.status = "done" => Len(iter.observed) = sim.ts_length)

\* C9 witness: the iteration is exhausted after at least two profiles, the
\* second unlike the first
C9_Witness ==
    /\ SameRunAgain
    /\ gen.status = "done"
    /\ Len(iter.observed) >= 2
    /\ iter.observed[2] # iter.observed[1]
    /\ iter.observed[2] = sim.actions_sequence[1]

\* C10: each profile handed out by simulate_iter is a snapshot: read at any
\* later time, the array handed out at step t still shows the values it
\* showed when it was handed out.
C10_YieldedAreSnapshots ==
    \A k \in 1..Len(iter.collected) :
        Read(iter.collected[k], Engine) = iter.observed[k]

\* the profiles an iteration has handed out by the time it is exhausted:
\* ts_length of them, or the first alone when the revision mode is not one
\* play accepts (the first play raises)
ExhaustedCount ==
    IF gen.revision \in ValidRevisions \/ gen.ts_length = 0
    THEN gen.ts_length ELSE 1

\* C11: an iteration made by simulate_iter(ts_length, ...) is finite: it hands
\* out at most ts_length profiles and, in a valid mode, exactly ts_length by
\* the time it is exhausted; a next() on the exhausted iteration raises
\* StopIteration, hands out no further profile, leaves the action state as it
\* was and leaves the iteration exhausted (it does not start over).
C11_IterationFinite ==
    gen.owner = "caller"
    => /\ Len(iter.observed) <= gen.ts_length
       /\ Len(iter.collected) = Len(iter.observed)
       /\ (gen.status = "done" => Len(iter.observed) = ExhaustedCount)
       /\ ((last.op = "next" /\ last.before.status = "done") =>
             /\ gen.status = "done"
             /\ last.error = "StopIteration"
             /\ Engine = last.before.e
             /\ Len(iter.observed) = ExhaustedCount)

\* C11 witness: next() was called on an iteration already exhausted after at
\* least two profiles, the second unlike the first
C11_Witness ==
    /\ gen.owner = "caller"
    /\ last.op = "next"
    /\ last.before.status = "done"
    /\ gen.revision \in ValidRevisions
    /\ gen.ts_length >= 2
    /\ Len(iter.observed) = gen.ts_length
    /\ iter.observed[2] # iter.observed[1]

\* C12: as soon as simulate_iter(ts_length, init_actions, ...) has been
\* called with given init_actions, and before any profile is requested from
\* the iteration, the action state equals those init_actions.
C12_SeededOnInvocation ==
    (last.op = "simulate_iter" /\ last.init_actions # None)
    => /\ current_actions = last.init_actions
       /\ current_actions_mixed.indices = last.init_actions

\* C13: one call of simulate seeds the action state once, before any
\* revision: from its first line on the call has performed exactly one
\* seeding (one random draw per player when init_actions is None), and the
\* first recorded profile is the profile that seeding produced.
C13_SeedsOnce ==
    sim.pc # "idle"
    => /\ sim.seedings = 1
       /\ (sim.t >= 1 => sim.actions_sequence[0] = sim.seeded)

\* C14: two simulate calls with the same given init_actions and the same
\* revision mode record the same first profile whatever action state each
\* call starts from: the first profile of the call that has returned is the
\* first profile a second call with its arguments records from the state the
\* engine is in now and from every other action state.
C14_SameFirstProfile ==
    ( /\ sim.pc = "returned"
      /\ sim.init_actions # None
      /\ sim.revision \in ValidRevisions
      /\ sim.ts_length >= 1 )
    => \A other \in Profiles :
          /\ FirstRecorded(Engine, sim.init_actions, sim.revision)
                 = sim.actions_sequence[0]
          /\ FirstRecorded(WriteAll(Engine, other), sim.init_actions,
                           sim.revision)
                 = sim.actions_sequence[0]

\* C14 witness: a simulate call with given init_actions has returned and has
\* left the engine in a state unlike its first recorded profile, the state a
\* second call would start from
C14_Witness ==
    /\ SimulateReturned
    /\ sim.init_actions # None
    /\ sim.revision = "sequential"
    /\ sim.ts_length >= 1
    /\ current_actions # sim.actions_sequence[0]
    /\ FirstRecorded(Engine, sim.init_actions, sim.revision)
           = sim.actions_sequence[0]

\* C15: in the three-player example (0 listens to 2, 1 to 0, 2 to 1,
\* coordination payoffs) one simultaneous step from the profile [0,1,0]
\* yields the profile [0,0,1].
C15_CycleExample ==
    ( /\ adj_matrix = ExampleCycle
      /\ payoff_matrix = Coordination
      /\ last.op = "play"
      /\ last.revision = "simultaneous"
      /\ last.before.ca = ProfileOf(<<0, 1, 0>>) )
    => /\ current_actions = ProfileOf(<<0, 0, 1>>)
       /\ current_actions_mixed.indices = ProfileOf(<<0, 0, 1>>)

\* C15 witness: the simultaneous step of the example has been played from
\* [0,1,0]
C15_Witness ==
    /\ N = 3
    /\ num_actions = 2
    /\ adj_matrix = ExampleCycle
    /\ adj_matrix[0][2] = 1 /\ adj_matrix[1][0] = 1 /\ adj_matrix[2][1] = 1
    /\ payoff_matrix = Coordination
    /\ last.op = "play"
    /\ last.revision = "simultaneous"
    /\ last.before.ca = ProfileOf(<<0, 1, 0>>)
    /\ current_actions = ProfileOf(<<0, 0, 1>>)

\* C16: with a single player (a 1 x 1 adjacency matrix, zero or not) seeding
\* and play in both modes end without error; sequential play selects player
\* 0; each play sets the player's action to the best response to its own
\* opponent distribution, which is all zeros when the player has no
\* self-loop.
C16_SinglePlayer ==
    N = 1
    => /\ RandomChoice = {0}
       /\ (last.op = "set_init_actions" => last.error = "none")
       /\ ((last.op = "play" /\ last.revision \in ValidRevisions) =>
             /\ last.error = "none"
             /\ last.i = 0
             /\ current_actions[0]
                    = BestResponse(WeightedTally(last.before.ca, 0))
             /\ OpponentActDist(last.before, 0)
                    = WeightedTally(last.before.ca, 0)
             /\ OpponentActDists(last.before)[0]
                    = WeightedTally(last.before.ca, 0)
             /\ (adj_matrix[0][0] = 0 =>
                    \A a \in Actions : OpponentActDist(last.before, 0)[a] = 0))

\* C16 witness: the single player, linked to itself, has changed its action
\* in a sequential step
C16_Witness ==
    /\ N = 1
    /\ adj_matrix[0][0] # 0
    /\ last.op = "play"
    /\ last.revision = "sequential"
    /\ last.error = "none"
    /\ last.i = 0
    /\ current_actions[0] # last.before.ca[0]
    /\ current_actions[0] = BestResponse(WeightedTally(last.before.ca, 0))

\* C17: construction raises a validation error when the adjacency matrix is
\* not square and when the payoff matrix is not square or not
\* two-dimensional, and then no engine is produced; a construction that
\* succeeds yields N = the size of the adjacency matrix, num_actions = the
\* size of the payoff matrix and the all-zero profile.
C17_ConstructionValidates ==
    (last.op = "__init__" /\ last.error # "pending")
    => LET adj == last.before.adj_matrix
           A == last.before.payoff_matrix
           adj_square == adj.shape[1] = adj.shape[2]
           payoff_square == Len(A.shape) = 2 /\ A.shape[1] = A.shape[2]
       IN  /\ (~adj_square \/ ~payoff_square) => last.error = "ValueError"
           /\ last.error = "ValueError" =>
                 /\ N = None
                 /\ current_actions = None
                 /\ current_actions_mixed = None
           /\ last.error # "ValueError" =>
                 /\ last.error = "none"
                 /\ N = adj.shape[1] /\ N = adj.shape[2]
                 /\ num_actions = A.shape[1] /\ num_actions = A.shape[2]
                 /\ adj_matrix = adj.rows
                 /\ payoff_matrix = A.rows
                 /\ current_actions = [k \in 0..(N - 1) |-> 0]
                 /\ ToArray(current_actions_mixed, N, num_actions)
                        = [i \in 0..(N - 1) |->
                             [a \in 0..(num_actions - 1) |->
                                IF a = 0 THEN 1 ELSE 0]]

\* C17 witness: a construction with a square adjacency matrix has failed on
\* a two-dimensional payoff matrix that is not square
C17_Witness ==
    /\ last.op = "__init__"
    /\ last.error = "ValueError"
    /\ last.before.adj_matrix.shape = <<2, 2>>
    /\ last.before.payoff_matrix.shape = <<2, 1>>
    /\ N = None

\* the distribution play handed to the best response of player i in the last
\* play step (a valid mode): row i of the product in simultaneous mode, the
\* product of row i in sequential mode
HandedTo(i) ==
    IF last.revision = "simultaneous"
    THEN OpponentActDists(last.before)[i]
    ELSE OpponentActDist(last.before, i)

\* the players play handed a distribution for
Revised ==
    IF last.revision = "simultaneous" THEN Agents ELSE {last.i}

\* C18: in both modes the opponent distribution handed to player i's best
\* response has, for every action a, the entry
\* sum over j of adj_matrix[i][j] * [action of j = a]; when the adjacency
\* matrix is 0/1 that entry is the number of i's neighbours playing a, and the
\* entries add up to the number of i's neighbours.
C18_OpponentDistIsTally ==
    (last.op = "play" /\ last.revision \in ValidRevisions)
    => \A i \in Revised :
          LET neighbours == {j \in Agents : adj_matrix[i][j] # 0}
          IN  /\ HandedTo(i) = WeightedTally(last.before.ca, i)
              /\ (\A j \in Agents : adj_matrix[i][j] \in {0, 1}) =>
                    /\ \A a \in Actions :
                          HandedTo(i)[a] =
                              Cardinality({j \in neighbours :
                                              last.before.ca[j] = a})
                    /\ SumRange(HandedTo(i), 0, num_actions)
                           = Cardinality(neighbours)

\* C18 witness: a sequential step in which the selected player had a link of
\* weight 2 to a player of the other action, so that its distribution held a
\* 2 and a 1
C18_Witness ==
    /\ last.op = "play"
    /\ last.revision = "sequential"
    /\ N >= 2
    /\ \E j \in Agents :
          /\ adj_matrix[last.i][j] = 2
          /\ last.before.ca[j] # last.before.ca[last.i]
    /\ \E a, b \in Actions : HandedTo(last.i)[a] = 2 /\ HandedTo(last.i)[b] = 1
    /\ HandedTo(last.i) = WeightedTally(last.before.ca, last.i)

\* C19: the two modes agree player by player: from the state a play step
\* started in, the action a sequential step assigns to player i when it
\* selects i is the action a simultaneous step assigns to i, and it is the
\* action the step that was played (in either mode) assigned to the players
\* it revised.
C19_ModesAgree ==
    (last.op = "play" /\ last.revision \in ValidRevisions)
    => \A i \in Agents, empty \in EmptyArrays(N) :
          /\ PlaySequential(last.before, i).ca[i]
                 = PlaySimultaneous(last.before, EnumeratePlayers, empty).ca[i]
          /\ i \in Revised =>
                 /\ current_actions[i] = PlaySequential(last.before, i).ca[i]
                 /\ current_actions[i]
                        = PlaySimultaneous(last.before, EnumeratePlayers,
                                           empty).ca[i]

\* C19 witness: a sequential step changed the action of the selected player
\* to what a simultaneous step assigns it, where a simultaneous step would
\* have changed another player too
C19_Witness ==
    /\ last.op = "play"
    /\ last.revision = "sequential"
    /\ current_actions[last.i] # last.before.ca[last.i]
    /\ \E j \in Agents \ {last.i} :
          BestResponseImage(last.before.ca)[j] # last.before.ca[j]
    /\ \A empty \in EmptyArrays(N) :
          current_actions[last.i]
              = PlaySimultaneous(last.before, EnumeratePlayers,
                                 empty).ca[last.i]

\* every player's action in the profile is its best response to the tally of
\* its neighbours: the profiles a simultaneous step maps to themselves
Stays(profile) == BestResponseImage(profile) = profile

\* C20: a profile that a simultaneous step maps to itself is absorbing: a
\* play step of either mode (any selected player) from it leaves the action
\* state as it is, so in a trajectory (returned by simulate or read from
\* simulate_iter) every profile recorded after such a profile equals it, and
\* so does the action state the run ends in.  Stated the other way round: a
\* profile followed by a different one is not mapped to itself.
C20_FixedPointAbsorbs ==
    /\ (last.op = "play" /\ last.revision \in ValidRevisions) =>
          /\ Engine # last.before => ~Stays(last.before.ca)
          /\ \A empty \in EmptyArrays(N) :
                Stays(last.before.ca)
                <=> PlaySimultaneous(last.before, EnumeratePlayers, empty).ca
                       = last.before.ca
    /\ (sim.pc \in {"loop", "returned"} /\ sim.revision \in ValidRevisions) =>
          \A t \in 0..(sim.t - 1) :
              ( \/ \E u \in t..(sim.t - 1) :
                      sim.actions_sequence[u] # sim.actions_sequence[t]
                \/ /\ (sim.pc = "loop" \/ SimulateReturned)
                   /\ current_actions # sim.actions_sequence[t] )
              => ~Stays(sim.actions_sequence[t])
    /\ (gen.owner = "caller" /\ gen.revision \in ValidRevisions) =>
          \A k \in 1..Len(iter.observed) :
              ( \/ \E m \in k..Len(iter.observed) :
                      iter.observed[m] # iter.observed[k]
                \/ current_actions # iter.observed[k] )
              => ~Stays(iter.observed[k])

\* C20 witness: a sequential run of at least two steps has returned whose
\* first profile, in which not all players act alike, is mapped to itself by
\* a simultaneous step, and every recorded profile and the final action
\* state equal it
C20_Witness ==
    /\ SimulateReturned
    /\ sim.revision = "sequential"
    /\ sim.ts_length >= 2
    /\ Stays(sim.actions_sequence[0])
    /\ \E i, j \in Agents :
          sim.actions_sequence[0][i] # sim.actions_sequence[0][j]
    /\ \A t \in 0..(sim.ts_length - 1) :
          sim.actions_sequence[t] = sim.actions_sequence[0]
    /\ current_actions = sim.actions_sequence[0]

====
